---- MODULE Spec2Model ----
(***************************************************************************)
(* The dependent-fetch cascade of src/src/App.tsx: organizations ->        *)
(* projects -> APIs -> versions -> YAML document.  Every fetch function    *)
(* is split at its `await`: the part before it runs inside the event       *)
(* handler that calls it, the part after it runs when the HTTP request     *)
(* resolves.  Event handlers and promise continuations run to completion,  *)
(* so each is one atomic action.                                           *)
(***************************************************************************)
EXTENDS Integers, Sequences, FiniteSets, Bags, TLC

VARIABLES
    organizations, projects, apis, apiVersions, yamlDefinition,
    loadingOrganizations, loadingProjects, loadingApis, loadingApiVersions,
    loadingYaml,
    error,
    selectedOrg, selectedProject, selectedApi,
    inflight,   \* bag of HTTP requests issued by axios.get and not yet resolved
    mounted,    \* whether the mount effect has run
    last        \* observer: the step taken last and the request it concerned

data == <<organizations, projects, apis, apiVersions, yamlDefinition>>
loading == <<loadingOrganizations, loadingProjects, loadingApis,
             loadingApiVersions, loadingYaml>>
selections == <<selectedOrg, selectedProject, selectedApi>>
vars == <<data, loading, error, selections, inflight, mounted, last>>

\* Largest number of HTTP requests outstanding at once.
MaxInFlight == 2

\* JavaScript null (useState<... | null>(null)).
Null == "null"

\* The value Array.prototype.find returns when no element matches.
Undefined == [undefined |-> TRUE]

ErrOrganizations == "Failed to fetch organizations."
ErrProjects == "Failed to fetch projects."
ErrApis == "Failed to fetch APIs."
ErrApiVersions == "Failed to fetch API versions."
ErrYaml == "Failed to fetch YAML definition."

(***************************************************************************)
(* The remote catalog.  A body is the JSON object of a 200 response; a     *)
(* resource the catalog does not hold answers with an HTTP error only.     *)
(***************************************************************************)
NoBody == [status |-> "404"]

OrgsBody ==
    [items |-> << [id |-> "1", name |-> "o1"], [id |-> "2", name |-> "o2"],
                  [id |-> "3", name |-> "o3"] >>]

ProjectsBody(owner) ==
    CASE owner = "o1" -> [projects |-> << [name |-> "p1"], [name |-> "p2"] >>]
      [] owner = "o2" -> [projects |-> << [name |-> "p3"] >>]
      [] owner = "o3" -> [projects |-> << >>]
      [] OTHER -> NoBody

ApisBody(owner, project) ==
    CASE owner = "o1" /\ project = "p1" -> [apis |-> << "a1" >>]
      [] owner = "o1" /\ project = "p2" -> [apis |-> << "a2" >>]
      [] owner = "o2" /\ project = "p3" -> [offset |-> "0"]
      [] OTHER -> NoBody

VersionsBody(owner, api) ==
    CASE owner = "o1" /\ api = "a1" ->
            [apis |-> << [properties |->
                            << [type |-> "X-Version", value |-> "1.0.0"],
                               [type |-> "X-Other", value |-> "x"] >>] >>]
      [] owner = "o1" /\ api = "a2" ->
            [apis |-> << [properties |->
                            << [type |-> "X-Other", value |-> "y"] >>],
                         [properties |->
                            << [type |-> "X-Version", value |-> "2.0.0"] >>] >>]
      [] OTHER -> NoBody

YamlBody(owner, api, version) ==
    CASE owner = "o1" /\ api = "a1" /\ version = "1.0.0" -> [text |-> "yaml-a1"]
      [] OTHER -> NoBody

\* A request: the level it fetches and the path parameters of its URL.
Request(level, owner, project, api, version) ==
    [level |-> level, owner |-> owner, project |-> project, api |-> api,
     version |-> version]

NoRequest == Request(0, Null, Null, Null, Null)

Body(r) ==
    CASE r.level = 1 -> OrgsBody
      [] r.level = 2 -> ProjectsBody(r.owner)
      [] r.level = 3 -> ApisBody(r.owner, r.project)
      [] r.level = 4 -> VersionsBody(r.owner, r.api)
      [] r.level = 5 -> YamlBody(r.owner, r.api, r.version)

\* `response.data.f || []`
FieldOrEmpty(body, f) == IF f \in DOMAIN body THEN body[f] ELSE << >>

\* `item.properties.find((prop) => prop.type === "X-Version")`
RECURSIVE find(_)
find(properties) ==
    IF properties = << >> THEN Undefined
    ELSE IF Head(properties).type = "X-Version" THEN Head(properties)
    ELSE find(Tail(properties))

\* The mapping, were it to drop the entries for which find matched nothing.
map_Filtered(items) ==
    SelectSeq([i \in DOMAIN items |-> find(items[i].properties)],
              LAMBDA v : v # Undefined)

\* `response.data.apis.map((item) => item.properties.find(...))`
map(items) == [i \in DOMAIN items |-> find(items[i].properties)]

\* Reading `.apis` of a body without that field gives undefined, and
\* `undefined.map` throws a TypeError inside the try block.
MapThrows(body) == "apis" \notin DOMAIN body

(***************************************************************************)
(* Rendering.  The version list is drawn when an API is selected and the   *)
(* versions are not loading; `ver.value` of an undefined entry throws, and *)
(* an error thrown while rendering unmounts the whole tree: no handler can *)
(* be reached any more and later setState calls have no effect.            *)
(***************************************************************************)
RenderThrows ==
    /\ selectedApi # Null
    /\ ~loadingApiVersions
    /\ \E i \in DOMAIN apiVersions : apiVersions[i] = Undefined

Alive == mounted /\ ~RenderThrows

Issue(r) == inflight' = inflight (+) SetToBag({r})
Settle(r) == inflight' = inflight (-) SetToBag({r})
CanIssue == BagCardinality(inflight) < MaxInFlight
Pending(level) == {r \in BagToSet(inflight) : r.level = level}

(***************************************************************************)
(* The synchronous part of each fetch function, up to its `await`.         *)
(***************************************************************************)
\* fetchOrganizations, were it to start without setError(null).
fetchOrganizationsBegin_KeepsError ==
    /\ organizations' = << >>
    /\ projects' = << >>
    /\ apis' = << >>
    /\ apiVersions' = << >>
    /\ yamlDefinition' = Null
    /\ loadingOrganizations' = TRUE
    /\ Issue(Request(1, Null, Null, Null, Null))
    /\ UNCHANGED <<loadingProjects, loadingApis, loadingApiVersions, loadingYaml,
                   error>>

fetchOrganizationsBegin ==
    /\ organizations' = << >>
    /\ projects' = << >>
    /\ apis' = << >>
    /\ apiVersions' = << >>
    /\ yamlDefinition' = Null
    /\ loadingOrganizations' = TRUE
    /\ error' = Null
    /\ Issue(Request(1, Null, Null, Null, Null))
    /\ UNCHANGED <<loadingProjects, loadingApis, loadingApiVersions, loadingYaml>>

fetchProjectsBegin(owner) ==
    /\ projects' = << >>
    /\ apis' = << >>
    /\ apiVersions' = << >>
    /\ yamlDefinition' = Null
    /\ loadingProjects' = TRUE
    /\ error' = Null
    /\ Issue(Request(2, owner, Null, Null, Null))
    /\ UNCHANGED <<organizations, loadingOrganizations, loadingApis,
                   loadingApiVersions, loadingYaml>>

\* fetchApis, were it to start without setError(null).
fetchApisBegin_KeepsError(owner, project) ==
    /\ apis' = << >>
    /\ apiVersions' = << >>
    /\ yamlDefinition' = Null
    /\ loadingApis' = TRUE
    /\ Issue(Request(3, owner, project, Null, Null))
    /\ UNCHANGED <<organizations, projects, loadingOrganizations,
                   loadingProjects, loadingApiVersions, loadingYaml, error>>

fetchApisBegin(owner, project) ==
    /\ apis' = << >>
    /\ apiVersions' = << >>
    /\ yamlDefinition' = Null
    /\ loadingApis' = TRUE
    /\ error' = Null
    /\ Issue(Request(3, owner, project, Null, Null))
    /\ UNCHANGED <<organizations, projects, loadingOrganizations,
                   loadingProjects, loadingApiVersions, loadingYaml>>

fetchApiVersionsBegin(owner, api) ==
    /\ apiVersions' = << >>
    /\ yamlDefinition' = Null
    /\ loadingApiVersions' = TRUE
    /\ error' = Null
    /\ Issue(Request(4, owner, Null, api, Null))
    /\ UNCHANGED <<organizations, projects, apis, loadingOrganizations,
                   loadingProjects, loadingApis, loadingYaml>>

fetchYamlDefinitionBegin(owner, api, version) ==
    /\ yamlDefinition' = Null
    /\ loadingYaml' = TRUE
    /\ error' = Null
    /\ Issue(Request(5, owner, Null, api, version))
    /\ UNCHANGED <<organizations, projects, apis, apiVersions,
                   loadingOrganizations, loadingProjects, loadingApis,
                   loadingApiVersions>>

(***************************************************************************)
(* The part of each fetch function after its `await`: the try block's      *)
(* remainder on a 2xx response, the catch block otherwise, then finally.   *)
(***************************************************************************)
fetchOrganizationsThen(r) ==
    /\ organizations' = FieldOrEmpty(Body(r), "items")
    /\ loadingOrganizations' = FALSE
    /\ UNCHANGED <<projects, apis, apiVersions, yamlDefinition, loadingProjects,
                   loadingApis, loadingApiVersions, loadingYaml, error>>

fetchOrganizationsCatch ==
    /\ error' = ErrOrganizations
    /\ loadingOrganizations' = FALSE
    /\ UNCHANGED <<data, loadingProjects, loadingApis, loadingApiVersions,
                   loadingYaml>>

\* fetchProjects' try block, were it to read `response.data.items`.
fetchProjectsThen_WrongField(r) ==
    /\ projects' = FieldOrEmpty(Body(r), "items")
    /\ loadingProjects' = FALSE
    /\ UNCHANGED <<organizations, apis, apiVersions, yamlDefinition,
                   loadingOrganizations, loadingApis, loadingApiVersions,
                   loadingYaml, error>>

fetchProjectsThen(r) ==
    /\ projects' = FieldOrEmpty(Body(r), "projects")
    /\ loadingProjects' = FALSE
    /\ UNCHANGED <<organizations, apis, apiVersions, yamlDefinition,
                   loadingOrganizations, loadingApis, loadingApiVersions,
                   loadingYaml, error>>

fetchProjectsCatch ==
    /\ error' = ErrProjects
    /\ loadingProjects' = FALSE
    /\ UNCHANGED <<data, loadingOrganizations, loadingApis, loadingApiVersions,
                   loadingYaml>>

\* fetchApis' try block, were it to call setError(null) on success.
fetchApisThen_ClearsError(r) ==
    /\ apis' = FieldOrEmpty(Body(r), "apis")
    /\ loadingApis' = FALSE
    /\ error' = Null
    /\ UNCHANGED <<organizations, projects, apiVersions, yamlDefinition,
                   loadingOrganizations, loadingProjects, loadingApiVersions,
                   loadingYaml>>

fetchApisThen(r) ==
    /\ apis' = FieldOrEmpty(Body(r), "apis")
    /\ loadingApis' = FALSE
    /\ UNCHANGED <<organizations, projects, apiVersions, yamlDefinition,
                   loadingOrganizations, loadingProjects, loadingApiVersions,
                   loadingYaml, error>>

\* fetchApis, were setLoadingApis(false) at the end of the try block instead
\* of in a finally block.
fetchApisCatch_NoFinally ==
    /\ error' = ErrApis
    /\ UNCHANGED <<data, loading>>

fetchApisCatch ==
    /\ error' = ErrApis
    /\ loadingApis' = FALSE
    /\ UNCHANGED <<data, loadingOrganizations, loadingProjects,
                   loadingApiVersions, loadingYaml>>

fetchApiVersionsThen(r) ==
    /\ apiVersions' = map(Body(r).apis)
    /\ loadingApiVersions' = FALSE
    /\ UNCHANGED <<organizations, projects, apis, yamlDefinition,
                   loadingOrganizations, loadingProjects, loadingApis,
                   loadingYaml, error>>

fetchApiVersionsCatch ==
    /\ error' = ErrApiVersions
    /\ loadingApiVersions' = FALSE
    /\ UNCHANGED <<data, loadingOrganizations, loadingProjects, loadingApis,
                   loadingYaml>>

fetchYamlDefinitionThen(r) ==
    /\ yamlDefinition' = Body(r).text
    /\ loadingYaml' = FALSE
    /\ UNCHANGED <<organizations, projects, apis, apiVersions,
                   loadingOrganizations, loadingProjects, loadingApis,
                   loadingApiVersions, error>>

\* fetchYamlDefinition's catch block, were it to clear the version list too.
fetchYamlDefinitionCatch_ClearsVersions ==
    /\ error' = ErrYaml
    /\ loadingYaml' = FALSE
    /\ apiVersions' = << >>
    /\ UNCHANGED <<organizations, projects, apis, yamlDefinition,
                   loadingOrganizations, loadingProjects, loadingApis,
                   loadingApiVersions>>

fetchYamlDefinitionCatch ==
    /\ error' = ErrYaml
    /\ loadingYaml' = FALSE
    /\ UNCHANGED <<data, loadingOrganizations, loadingProjects, loadingApis,
                   loadingApiVersions>>

Then(r) ==
    CASE r.level = 1 -> fetchOrganizationsThen(r)
      [] r.level = 2 -> fetchProjectsThen(r)
      [] r.level = 3 -> fetchApisThen(r)
      [] r.level = 4 -> fetchApiVersionsThen(r)
      [] r.level = 5 -> fetchYamlDefinitionThen(r)

Catch(r) ==
    CASE r.level = 1 -> fetchOrganizationsCatch
      [] r.level = 2 -> fetchProjectsCatch
      [] r.level = 3 -> fetchApisCatch
      [] r.level = 4 -> fetchApiVersionsCatch
      [] r.level = 5 -> fetchYamlDefinitionCatch

\* Whether the try block of the fetch for r runs to its end on a 2xx body.
TryCompletes(r) == Body(r) # NoBody /\ (r.level = 4 => ~MapThrows(Body(r)))

Note(op, r) == last' = [op |-> op, req |-> r]

Init ==
    /\ organizations = << >>
    /\ projects = << >>
    /\ apis = << >>
    /\ apiVersions = << >>
    /\ yamlDefinition = Null
    /\ loadingOrganizations = FALSE
    /\ loadingProjects = FALSE
    /\ loadingApis = FALSE
    /\ loadingApiVersions = FALSE
    /\ loadingYaml = FALSE
    /\ error = Null
    /\ selectedOrg = Null
    /\ selectedProject = Null
    /\ selectedApi = Null
    /\ inflight = EmptyBag
    /\ mounted = FALSE
    /\ last = [op |-> "init", req |-> NoRequest]

\* useEffect(() => { fetchOrganizations(); }, []) : once, after the first render.
Mount ==
    /\ ~mounted
    /\ mounted' = TRUE
    /\ fetchOrganizationsBegin
    /\ UNCHANGED selections
    /\ Note("load", Request(1, Null, Null, Null, Null))

\* onClick of an organization <li>.
ClickOrganization(i) ==
    /\ Alive /\ CanIssue
    /\ ~loadingOrganizations
    /\ selectedOrg' = organizations[i].name
    /\ fetchProjectsBegin(organizations[i].name)
    /\ UNCHANGED <<selectedProject, selectedApi, mounted>>
    /\ Note("select", Request(2, organizations[i].name, Null, Null, Null))

\* The project handler, were it to call fetchApis without setSelectedProject.
ClickProject_NoSetSelected(i) ==
    /\ Alive /\ CanIssue
    /\ selectedOrg # Null
    /\ ~loadingProjects
    /\ fetchApisBegin(selectedOrg, projects[i].name)
    /\ UNCHANGED <<selections, mounted>>
    /\ Note("select", Request(3, selectedOrg, projects[i].name, Null, Null))

\* onClick of a project <li>.
ClickProject(i) ==
    /\ Alive /\ CanIssue
    /\ selectedOrg # Null
    /\ ~loadingProjects
    /\ selectedProject' = projects[i].name
    /\ fetchApisBegin(selectedOrg, projects[i].name)
    /\ UNCHANGED <<selectedOrg, selectedApi, mounted>>
    /\ Note("select", Request(3, selectedOrg, projects[i].name, Null, Null))

\* onClick of an API <li>.
ClickApi(i) ==
    /\ Alive /\ CanIssue
    /\ selectedProject # Null
    /\ ~loadingApis
    /\ selectedApi' = apis[i]
    /\ fetchApiVersionsBegin(selectedOrg, apis[i])
    /\ UNCHANGED <<selectedOrg, selectedProject, mounted>>
    /\ Note("select", Request(4, selectedOrg, Null, apis[i], Null))

\* onClick of a version <li>.
ClickVersion(i) ==
    /\ Alive /\ CanIssue
    /\ selectedApi # Null
    /\ ~loadingApiVersions
    /\ fetchYamlDefinitionBegin(selectedOrg, selectedApi, apiVersions[i].value)
    /\ UNCHANGED <<selections, mounted>>
    /\ Note("select", Request(5, selectedOrg, Null, selectedApi, apiVersions[i].value))

\* The request resolves with a 2xx response and the try block completes.
Succeed(r) ==
    /\ BagIn(r, inflight) /\ Alive
    /\ TryCompletes(r)
    /\ Settle(r)
    /\ Then(r)
    /\ UNCHANGED <<selections, mounted>>
    /\ Note("success", r)

\* axios.get rejects, or the try block throws: catch, then finally.
Fail(r) ==
    /\ BagIn(r, inflight) /\ Alive
    /\ Settle(r)
    /\ Catch(r)
    /\ UNCHANGED <<selections, mounted>>
    /\ Note("failure", r)

\* The request resolves after the tree was unmounted: setState does nothing.
Drop(r) ==
    /\ BagIn(r, inflight) /\ ~Alive
    /\ Settle(r)
    /\ UNCHANGED <<data, loading, error, selections, mounted>>
    /\ Note("dropped", r)

Next ==
    \/ Mount
    \/ \E i \in DOMAIN organizations : ClickOrganization(i)
    \/ \E i \in DOMAIN projects : ClickProject(i)
    \/ \E i \in DOMAIN apis : ClickApi(i)
    \/ \E i \in DOMAIN apiVersions : ClickVersion(i)
    \/ \E r \in BagToSet(inflight) : Succeed(r)
    \/ \E r \in BagToSet(inflight) : Fail(r)
    \/ \E r \in BagToSet(inflight) : Drop(r)

Spec == Init /\ [][Next]_vars

(***************************************************************************)
(* fetchOrganizations called again by its caller while the tree is         *)
(* mounted (a refresh); the source itself calls it from the mount effect   *)
(* only.                                                                   *)
(***************************************************************************)
Reload ==
    /\ Alive /\ CanIssue
    /\ fetchOrganizationsBegin
    /\ UNCHANGED <<selections, mounted>>
    /\ Note("load", Request(1, Null, Null, Null, Null))

NextReload == Next \/ Reload

SpecReload == Init /\ [][NextReload]_vars

(***************************************************************************)
(* The five levels, by number.                                             *)
(***************************************************************************)
Levels == 1..5

\* Whether level N holds no data (the document level holds null).
IsEmpty(N) ==
    CASE N = 1 -> organizations = << >>
      [] N = 2 -> projects = << >>
      [] N = 3 -> apis = << >>
      [] N = 4 -> apiVersions = << >>
      [] N = 5 -> yamlDefinition = Null

Items(N) == data[N]

Loading(N) == loading[N]

\* The recorded selection at level N (levels 1..3 have one).
Selected(N) == selections[N]

Err(N) ==
    CASE N = 1 -> ErrOrganizations
      [] N = 2 -> ErrProjects
      [] N = 3 -> ErrApis
      [] N = 4 -> ErrApiVersions
      [] N = 5 -> ErrYaml

\* The list of level N is drawn and not replaced by its loading text.
Listed(N) ==
    /\ ~Loading(N)
    /\ N > 1 => Selected(N - 1) # Null

(***************************************************************************)
(* Properties.                                                             *)
(***************************************************************************)

\* C1: right after a select operation (the fetch for level N = 2..5) begins,
\* every level M > N is empty and has no recorded selection; selecting an
\* organization also leaves selectedProject and selectedApi none.
C1_SelectResetsDownstream ==
    last.op = "select" =>
        LET N == last.req.level IN
        /\ \A M \in Levels : M > N => IsEmpty(M)
        /\ \A M \in 1..3 : M > N => Selected(M) = Null
        /\ N = 2 => selectedProject = Null /\ selectedApi = Null

C3_LoadingWhileInFlight ==
    \A r \in BagToSet(inflight) : Loading(r.level) /\ IsEmpty(r.level)

\* C4: the step that applies the last outstanding API-list response, when the
\* response of the project selected after it (same organization) has already
\* been applied, leaves apis equal to the list of the project selected last.
C4_LatestProjectWins ==
    [][\A r \in Pending(3) :
          ( /\ Succeed(r)
            /\ CopiesIn(r, inflight) = 1 /\ Pending(3) = {r} /\ Pending(2) = {}
            /\ r.owner = selectedOrg /\ r.project # selectedProject
            /\ ~loadingApis /\ ~loadingProjects
            /\ apis = FieldOrEmpty(ApisBody(selectedOrg, selectedProject), "apis") )
          => apis' = FieldOrEmpty(ApisBody(selectedOrg, selectedProject), "apis")
      ]_vars

\* C5: the step that applies a failure at level N sets error to that level's
\* message and leaves data and loading flag of every level below N, and all
\* recorded selections, as they were.
C5_FailureLeavesAncestors ==
    [][last'.op = "failure" =>
          LET N == last'.req.level IN
          /\ error' = Err(N)
          /\ selections' = selections
          /\ \A M \in Levels : M < N =>
                Items(M)' = Items(M) /\ Loading(M)' = Loading(M)
      ]_vars

\* C5 witness: a failed document fetch was applied while versions were listed.
C5_Witness ==
    /\ last.op = "failure" /\ last.req.level = 5
    /\ apiVersions # << >> /\ ~loadingApiVersions
    /\ error = ErrYaml

\* C6: right after a failure at level N is applied, level N is not loading,
\* holds no data, and error is that level's message.
C6_FailedLevelEmpty ==
    last.op = "failure" =>
        LET N == last.req.level IN
        ~Loading(N) /\ IsEmpty(N) /\ error = Err(N)

\* C7: for N = 2, 3, 4, level N holding data, loading, or awaiting a response
\* implies that level N-1 has a recorded selection.
C7_SelectionGating ==
    \A N \in 2..4 :
        (~IsEmpty(N) \/ Loading(N) \/ Pending(N) # {}) => Selected(N - 1) # Null

\* C7 witness: an API-list response has populated apis.
C7_Witness ==
    /\ last.op = "success" /\ last.req.level = 3
    /\ apis # << >> /\ selectedProject # Null

\* C8: a fetch is issued only from a populated level that is not loading,
\* and when the response of a request issued for the current selection of its
\* own level is applied (so that only fetches of different levels are
\* involved), no level above it is loading and every ancestor still holds the
\* selection the request was issued for.
C8_NoCrossLevelRace ==
    LET r == last.req IN
    /\ (last.op = "select") =>
          ~Loading(r.level - 1) /\ ~IsEmpty(r.level - 1)
    /\ ( /\ last.op \in {"success", "failure"}
         /\ r.level = 2 => r.owner = selectedOrg
         /\ r.level = 3 => r.project = selectedProject
         /\ r.level = 4 => r.api = selectedApi )
       => /\ \A M \in Levels : M < r.level => ~Loading(M)
          /\ r.level > 1 => r.owner = selectedOrg
          /\ r.level = 5 => r.api = selectedApi

\* C9: in every step, the data of a level changes only to empty, or from
\* empty-and-loading to the response's data.
C9_LevelStateMachine ==
    [][\A N \in Levels :
          Items(N)' # Items(N) => (IsEmpty(N)' \/ (Loading(N) /\ IsEmpty(N)))
      ]_vars

\* C10: whenever error holds the message of level N = 2..5, the list of
\* level N-1 is still drawn, populated and not loading, so that an item of it
\* can be selected again.
C10_ErrorNonBlocking ==
    \A N \in 2..5 :
        error = Err(N) => (Listed(N - 1) /\ ~IsEmpty(N - 1))

ListField(N) ==
    CASE N = 1 -> "items"
      [] N = 2 -> "projects"
      [] N = 3 -> "apis"

FirstXVersion(properties) ==
    LET S == {j \in DOMAIN properties : properties[j].type = "X-Version"}
    IN IF S = {} THEN Undefined
       ELSE properties[CHOOSE j \in S : \A m \in S : j <= m]

\* C13: a successful versions response with k sub-items leaves apiVersions
\* with exactly k entries, entry i being the first X-Version property of
\* sub-item i or undefined when it has none, and leaves error as it was; the
\* record of S3 gives the single entry of value 1.0.0.
C13_VersionExtraction ==
    [][(last'.op = "success" /\ last'.req.level = 4) =>
          LET r == last'.req
              items == Body(r).apis
          IN /\ Len(apiVersions') = Len(items)
             /\ \A i \in DOMAIN items :
                   apiVersions'[i] = FirstXVersion(items[i].properties)
             /\ error' = error
             /\ (r.owner = "o1" /\ r.api = "a1") =>
                   /\ Len(apiVersions') = 1
                   /\ apiVersions'[1].value = "1.0.0"
      ]_vars

\* C13 witness: a record of two sub-items, the first without an X-Version
\* property, was applied: two entries, the first undefined, no error.
C13_Witness ==
    /\ last.op = "success" /\ last.req.level = 4 /\ last.req.api = "a2"
    /\ Len(apiVersions) = 2
    /\ apiVersions[1] = Undefined
    /\ apiVersions[2].value = "2.0.0"
    /\ error = Null

\* C14: error is always none or one of the five level messages; the first
\* step of every operation sets it to none; an applied failure sets it to its
\* level's message whatever it held; no other step changes it.  Hence the
\* slot shows the latest failure applied since the last operation start.
C14_SharedErrorSlot ==
    /\ [](error \in {Null} \cup {Err(N) : N \in Levels})
    /\ [][/\ last'.op \in {"load", "select"} => error' = Null
          /\ last'.op = "failure" => error' = Err(last'.req.level)
          /\ last'.op \in {"success", "dropped"} => error' = error
        ]_vars

\* C14 witness: a failure was applied while another request was still in
\* flight, and the slot holds its level's message.
C14_Witness ==
    /\ last.op = "failure"
    /\ last.req.level = 3
    /\ error = ErrApis
    /\ Pending(2) # {}

(***************************************************************************)
(* Every request issued eventually resolves: axios.get settles its promise *)
(* and the continuation of the fetch function then runs.                   *)
(***************************************************************************)
Resolve == \E r \in BagToSet(inflight) : Succeed(r) \/ Fail(r) \/ Drop(r)

SpecFair == Spec /\ WF_vars(Resolve)

\* No level is loading.
Idle == \A N \in Levels : ~Loading(N)

\* From some point on no operation is started.
FinitelyManyOperations == <>[][last'.op \notin {"load", "select"}]_vars

ProjectNames(owner) ==
    LET ps == FieldOrEmpty(ProjectsBody(owner), "projects")
    IN {ps[i].name : i \in DOMAIN ps}

\* The APIs the catalog lists for some project of an owner.
ApisOfOwner(owner) ==
    UNION { LET as == FieldOrEmpty(ApisBody(owner, p), "apis")
            IN {as[i] : i \in DOMAIN as} : p \in ProjectNames(owner) }

\* The version labels the catalog holds for (owner, api).
VersionsOf(owner, api) ==
    LET body == VersionsBody(owner, api)
        vs == IF "apis" \in DOMAIN body THEN map(body.apis) ELSE << >>
    IN {vs[i].value : i \in {j \in DOMAIN vs : vs[j] # Undefined}}

\* C16: a versions request (owner, api) is issued only with an api of an API
\* list of a project of that owner, and a document request (owner, api,
\* version) only with a version of the version list of that (owner, api).
C16_ConsistentParameters ==
    LET r == last.req IN
    last.op = "select" =>
        /\ r.level = 4 => r.api \in ApisOfOwner(r.owner)
        /\ r.level = 5 => r.version \in VersionsOf(r.owner, r.api)

\* C17: the step that applies a successful response for level N leaves the
\* data and loading flag of every other level, all recorded selections and
\* error as they were.
C17_SuccessFrame ==
    [][last'.op = "success" =>
          LET N == last'.req.level IN
          /\ \A M \in Levels : M # N =>
                Items(M)' = Items(M) /\ Loading(M)' = Loading(M)
          /\ selections' = selections
          /\ error' = error
      ]_vars

\* C17 witness: an API-list response was applied while error held the
\* message of another level's failure, and the message is still there.
C17_Witness ==
    /\ last.op = "success" /\ last.req.level = 3
    /\ error \in {ErrApiVersions, ErrProjects}
    /\ apis # << >>

====
